---- MODULE Spec2Model ----
(***************************************************************************)
(* Model of back.py: a hardlink based snapshot backup.                     *)
(*                                                                         *)
(* A file name is a sequence of one-character strings, a path is a         *)
(* sequence of file names (always absolute: <<>> is "/").  The file system *)
(* is a function from the existing paths to their nodes.                   *)
(***************************************************************************)
EXTENDS Integers, Sequences, FiniteSets, TLC

\* ------------------------------------------------------------------ bounds
\* Greatest value the clock (datetime.utcnow) takes.
MaxTime == 2
\* Greatest number of work items that fail with an I/O error of the
\* environment (unreadable file, full disk) in one run.
MaxFaults == 1

\* ------------------------------------------------------------- file names
Digits == <<"0", "1", "2", "3", "4", "5", "6", "7", "8", "9">>

\* BackupFolder.timeformat: every "D" is one decimal digit.
timeformat == <<"D", "D">>

\* BackupFolder.tmp_suffix
tmp_suffix == <<".", "t", "m", "p">>

\* str.endswith
EndsWith(e, suf) ==
    /\ Len(e) >= Len(suf)
    /\ SubSeq(e, Len(e) - Len(suf) + 1, Len(e)) = suf

IsDigit(c) == \E i \in 1..Len(Digits) : Digits[i] = c
DigitVal(c) == (CHOOSE i \in 1..Len(Digits) : Digits[i] = c) - 1

\* ts.strftime(self.timeformat): zero padded to the width of the format.
strftime(t) == <<Digits[((t \div 10) % 10) + 1], Digits[(t % 10) + 1]>>

\* Whether datetime.strptime(e, self.timeformat) returns (it raises
\* ValueError otherwise).
Parses(e) ==
    /\ Len(e) = Len(timeformat)
    /\ \A i \in 1..Len(e) : IsDigit(e[i])

\* datetime.strptime(e, self.timeformat) of a name that parses.
strptime(e) == 10 * DigitVal(e[1]) + DigitVal(e[2])

\* ------------------------------------------------------------ file system
DotDot == <<".", ".">>

Dir == [kind |-> "dir", data |-> <<>>, mtime |-> 0, ino |-> <<>>, target |-> <<>>]
File(c, m, i) == [kind |-> "file", data |-> c, mtime |-> m, ino |-> i, target |-> <<>>]
Symlink(t) == [kind |-> "symlink", data |-> <<>>, mtime |-> 0, ino |-> <<>>, target |-> t]

Front(s) == SubSeq(s, 1, Len(s) - 1)
Last(s) == s[Len(s)]

IsPrefix(p, q) == Len(p) <= Len(q) /\ SubSeq(q, 1, Len(p)) = p
\* q lies strictly below p
StrictlyBelow(q, p) == IsPrefix(p, q) /\ Len(q) > Len(p)

\* os.path.realpath: ".." and symbolic links resolved, left to right.
RECURSIVE Resolve(_, _, _)
Resolve(f, cur, rest) ==
    IF rest = <<>> THEN cur
    ELSE LET c == Head(rest) IN
         IF c = DotDot
         THEN Resolve(f, IF cur = <<>> THEN <<>> ELSE Front(cur), Tail(rest))
         ELSE LET cand == Append(cur, c) IN
              IF cand \in DOMAIN f /\ f[cand].kind = "symlink"
              THEN Resolve(f, <<>>, f[cand].target \o Tail(rest))
              ELSE Resolve(f, cand, Tail(rest))

realpath(f, p) == Resolve(f, <<>>, p)

\* The path a system call that does not follow a final symbolic link acts
\* on (os.rmdir, os.unlink, os.rename): all but the last name resolved.
lpath(f, p) ==
    IF p = <<>> \/ Last(p) = DotDot THEN realpath(f, p)
    ELSE Append(realpath(f, Front(p)), Last(p))

\* os.path.exists (follows symbolic links)
exists(f, p) == realpath(f, p) = <<>> \/ realpath(f, p) \in DOMAIN f

\* os.path.isdir
isdir(f, p) ==
    \/ realpath(f, p) = <<>>
    \/ realpath(f, p) \in DOMAIN f /\ f[realpath(f, p)].kind = "dir"

\* The names os.listdir / os.scandir give for the directory at real path d.
listdir(f, d) == {Last(q) : q \in {x \in DOMAIN f : Len(x) = Len(d) + 1 /\ IsPrefix(d, x)}}

\* A set as a sequence, in the order the directory listing happens to have.
SetToSeq(S) == CHOOSE q \in [1..Cardinality(S) -> S] : \A i, j \in 1..Cardinality(S) : i # j => q[i] # q[j]

\* The function f without the paths in gone / with the nodes of more.
Without(f, gone) == [q \in DOMAIN f \ gone |-> f[q]]
With(f, more) == [q \in DOMAIN f \cup DOMAIN more |-> IF q \in DOMAIN more THEN more[q] ELSE f[q]]

\* --------------------------------------------------- the program's state
VARIABLES
    fs,         \* the file system: existing path -> node
    other,      \* a second run of the script on the same root, as far as
                \* this run can meet it: its position (pc "none" when there
                \* is no second run), its two paths, its items still to run
    clock,      \* the last value datetime.utcnow() returned
    pc,         \* position of the main thread
    err,        \* the exception that ended the run, "none" while there is none
    verbose,    \* args.v
    older,      \* args.o, drawn when line 295 reads it and 0 until then (0
                \* also stands for an absent -o: line 295 tests its truth)
    dst,        \* the final snapshot path (dst of __main__)
    tmp_dst,    \* the temporary snapshot path (tmp_dst of __main__, self.dst)
    base,       \* <<>> for None, <<path>> for the base snapshot
    todo,       \* the work items the walk of the source has yet to submit
    work,       \* the futures submitted to the pool, in submission order
    total,      \* get_file_count(self.src)
    collected,  \* the futures as_completed has yielded to the main thread
    faults,     \* number of work items failed by the environment so far
    rp_mode,    \* which generator feeds remove_paths: "tmp", "older", "list"
    rp_ref,     \* ref of list_older
    rp_todo,    \* the paths the generator has yet to look at
    rp_cur,     \* p of remove_paths, <<>> while there is none
    rp_s,       \* s of path_below
    rp_ret,     \* where the main thread continues after remove_paths
    removed,    \* history: [arg |-> p, real |-> r, path |-> q]: remove_paths
                \* removed q for the path p of its list, whose real path was r
    committed,  \* history: os.rename(tmp_dst, dst) returned
    fs0         \* history: the file system when the run started

vars == <<fs, clock, pc, err, verbose, older, dst, tmp_dst, base, todo, work,
          total, collected, faults, rp_mode, rp_ref, rp_todo, rp_cur, rp_s,
          rp_ret, removed, committed, fs0, other>>

runVars == <<dst, tmp_dst, base, todo, work, total, collected, faults>>
rpVars == <<rp_mode, rp_ref, rp_todo, rp_cur, rp_s, rp_ret>>

\* ThreadPoolExecutor(max_workers = 8)
max_workers == 8

\* file names of the model
R == <<"r">>
S == <<"s">>
D == <<"d">>
E == <<"e">>
F == <<"f">>
X == <<"x">>
Q == <<"q">>

\* self.root of BackupFolder, src of __main__
root == <<R>>
src == <<S>>

None == <<>>
Some(p) == <<p>>

\* ------------------------------------------------------------ BackupFolder
\* make_timestamped_subdirname with utcnow() = t: (sub, tmp)
make_timestamped_subdirname(t) == [sub |-> Append(root, strftime(t)), tmp |-> Append(root, strftime(t) \o tmp_suffix)]

\* Mutant of NewestLoop: the comparison of line 107 turned around.
RECURSIVE NewestLoopOldest(_, _)
NewestLoopOldest(es, newest) ==
    IF es = <<>> THEN [raised |-> FALSE, value |-> IF newest.dt = -1 THEN None ELSE Some(newest.sub)]
    ELSE LET e == Head(es) IN
         IF EndsWith(e, tmp_suffix) THEN NewestLoopOldest(Tail(es), newest)
         ELSE IF ~Parses(e) THEN [raised |-> TRUE, value |-> None]
         ELSE IF newest.dt = -1 \/ strptime(e) < newest.dt
              THEN NewestLoopOldest(Tail(es), [dt |-> strptime(e), sub |-> Append(root, e)])
              ELSE NewestLoopOldest(Tail(es), newest)

\* Mutant of NewestLoop: the except clause of line 109 skips the entry
\* instead of raising again.
RECURSIVE NewestLoopSkip(_, _)
NewestLoopSkip(es, newest) ==
    IF es = <<>> THEN [raised |-> FALSE, value |-> IF newest.dt = -1 THEN None ELSE Some(newest.sub)]
    ELSE LET e == Head(es) IN
         IF EndsWith(e, tmp_suffix) THEN NewestLoopSkip(Tail(es), newest)
         ELSE IF ~Parses(e) THEN NewestLoopSkip(Tail(es), newest)
         ELSE IF newest.dt = -1 \/ strptime(e) > newest.dt
              THEN NewestLoopSkip(Tail(es), [dt |-> strptime(e), sub |-> Append(root, e)])
              ELSE NewestLoopSkip(Tail(es), newest)

\* The loop of find_newest_subdirname over the entries es, newest = (dt, sub)
\* so far (dt = -1 for None).  os.path.isdir(self.root) holds of every entry.
RECURSIVE NewestLoop(_, _)
NewestLoop(es, newest) ==
    IF es = <<>> THEN [raised |-> FALSE, value |-> IF newest.dt = -1 THEN None ELSE Some(newest.sub)]
    ELSE LET e == Head(es) IN
         IF EndsWith(e, tmp_suffix) THEN NewestLoop(Tail(es), newest)
         ELSE IF ~Parses(e) THEN [raised |-> TRUE, value |-> None]
         ELSE IF newest.dt = -1 \/ strptime(e) > newest.dt
              THEN NewestLoop(Tail(es), [dt |-> strptime(e), sub |-> Append(root, e)])
              ELSE NewestLoop(Tail(es), newest)

find_newest_subdirname(f) == NewestLoop(SetToSeq(listdir(f, realpath(f, root))), [dt |-> -1, sub |-> <<>>])

\* What the generator list_tmp does with the entry sub of os.listdir.
list_tmp(sub) == IF EndsWith(Last(sub), tmp_suffix) THEN "yield" ELSE "skip"

\* What the generator list_older does with the entry sub, ref = utcnow() - age.
list_older(sub, ref) ==
    IF EndsWith(Last(sub), tmp_suffix) THEN "skip"
    ELSE IF ~Parses(Last(sub)) THEN "raise"
    ELSE IF strptime(Last(sub)) < ref THEN "yield" ELSE "skip"

\* Mutant of path_below_start: the path taken as written, links and ".."
\* not resolved.
path_below_start_unresolved(f, sub) == sub

\* line 127 of path_below: s = os.path.realpath(sub)
path_below_start(f, sub) == realpath(f, sub)

\* os.path.split(s)[0] of an absolute path: "/" is its own head.
split(s) == IF s = <<>> THEN <<>> ELSE Front(s)

\* r == s in path_below, r = os.path.realpath(root).rstrip(os.sep): for the
\* root "/" r is the empty string, which no absolute path equals.
path_below_match(f, s) == realpath(f, root) # <<>> /\ realpath(f, root) = s

\* os.walk(p, topdown=False) with the loop body of remove_paths, up to the
\* first exception: the file system left, and the exception.  pp is the
\* generator object progress_printer(p) returns; it has no attribute pinc.
RECURSIVE RemoveWalk(_, _), RemoveBelow(_, _, _), RemoveDirs(_, _, _)
RemoveWalk(f, top) ==
    LET names == SetToSeq(listdir(f, top))
        IsD(n) == isdir(f, Append(top, n))
        IsF(n) == ~isdir(f, Append(top, n))
        IsReal(n) == f[Append(top, n)].kind = "dir"
        dirs == SelectSeq(names, IsD)
        files == SelectSeq(names, IsF)
        sub == RemoveBelow(f, top, SelectSeq(dirs, IsReal))
    IN IF sub.exc # "none" THEN sub
       ELSE IF files # <<>>
            THEN [fs |-> Without(sub.fs, {Append(top, Head(files))}), exc |-> "AttributeError"]
            ELSE RemoveDirs(sub.fs, top, dirs)

RemoveBelow(f, top, ds) ==
    IF ds = <<>> THEN [fs |-> f, exc |-> "none"]
    ELSE LET one == RemoveWalk(f, Append(top, Head(ds))) IN
         IF one.exc # "none" THEN one ELSE RemoveBelow(one.fs, top, Tail(ds))

\* for name in dirs: os.rmdir(os.path.join(root, name))
RemoveDirs(f, top, ds) ==
    IF ds = <<>> THEN [fs |-> f, exc |-> "none"]
    ELSE IF f[Append(top, Head(ds))].kind # "dir" THEN [fs |-> f, exc |-> "OSError"]
    ELSE RemoveDirs(Without(f, {Append(top, Head(ds))}), top, Tail(ds))

\* The body of the loop of remove_paths for a path p that path_below let
\* pass: the walk, then os.rmdir(p).
remove_tree(f, p) ==
    LET walked == IF isdir(f, p) THEN RemoveWalk(f, realpath(f, p)) ELSE [fs |-> f, exc |-> "none"]
        q == lpath(walked.fs, p)
    IN IF walked.exc # "none" THEN walked
       ELSE IF q \in DOMAIN walked.fs /\ walked.fs[q].kind = "dir" /\ listdir(walked.fs, q) = {}
            THEN [fs |-> Without(walked.fs, {q}), exc |-> "none"]
            ELSE [fs |-> walked.fs, exc |-> "OSError"]

\* -------------------------------------------------------------- CopyOrLink
\* os.walk(top) as copy_or_link reads it: the work items in the order they
\* are submitted, rel the path relative to the source.
RECURSIVE Walk(_, _, _), WalkInto(_, _, _, _)
Walk(f, top, rel) ==
    LET names == SetToSeq(listdir(f, top))
        IsD(n) == isdir(f, Append(top, n))
        IsF(n) == ~isdir(f, Append(top, n))
        dirnames == SelectSeq(names, IsD)
        filenames == SelectSeq(names, IsF)
    IN [i \in 1..Len(dirnames) |-> [kind |-> "dir", rel |-> Append(rel, dirnames[i])]]
       \o [i \in 1..Len(filenames) |-> [kind |-> "file", rel |-> Append(rel, filenames[i])]]
       \o WalkInto(f, top, rel, dirnames)

WalkInto(f, top, rel, ds) ==
    IF ds = <<>> THEN <<>>
    ELSE Walk(f, Append(top, Head(ds)), Append(rel, Head(ds))) \o WalkInto(f, top, rel, Tail(ds))

\* get_file_count(path): the sum of len(filenames) over the walk
get_file_count(f, path) ==
    LET w == Walk(f, path, <<>>) IN Cardinality({i \in 1..Len(w) : w[i].kind = "file"})

\* os.makedirs(d) of a path that does not exist: d and its missing ancestors
makedirs(f, d) ==
    With(f, [q \in {SubSeq(d, 1, n) : n \in 1..Len(d)} \ DOMAIN f |-> Dir])

\* Mutant of filecmp: shallow=True, equal signatures (type, size, mtime)
\* taken for equal files.
filecmp_shallow(f, b, s) ==
    LET nb == f[realpath(f, b)]
        ns == f[realpath(f, s)]
    IN /\ nb.kind = "file" /\ ns.kind = "file"
       /\ \/ Len(nb.data) = Len(ns.data) /\ nb.mtime = ns.mtime
          \/ nb.data = ns.data

\* filecmp.cmp(b, s, shallow=False): both regular files, of one size, with
\* the same bytes.  The signatures (type, size, mtime) decide nothing else.
filecmp(f, b, s) ==
    LET nb == f[realpath(f, b)]
        ns == f[realpath(f, s)]
    IN /\ nb.kind = "file" /\ ns.kind = "file"
       /\ Len(nb.data) = Len(ns.data)
       /\ nb.data = ns.data

\* Whether copy_or_link_file reads both files to compare them (line 205).
compares(f, bfile) == bfile # None /\ exists(f, bfile[1])

\* copy_or_link_file with a comparison that takes an I/O error for a
\* difference and goes on to copy.
copy_or_link_file_cmp_caught(f, sfile, dfile, bfile, fault) ==
    LET parentOk == isdir(f, Front(dfile))
        copy == IF fault = "op" \/ ~parentOk
                THEN [fs |-> f, act |-> "copy", exc |-> TRUE]
                ELSE [fs |-> With(f, dfile :> File(f[sfile].data, f[sfile].mtime, dfile)),
                      act |-> "copy", exc |-> FALSE]
    IN IF compares(f, bfile) /\ fault # "cmp" /\ filecmp(f, bfile[1], sfile)
       THEN IF fault = "op" \/ ~parentOk \/ exists(f, dfile)
            THEN [fs |-> f, act |-> "link", exc |-> TRUE]
            ELSE [fs |-> With(f, dfile :> f[realpath(f, bfile[1])]),
                  act |-> "link", exc |-> FALSE]
       ELSE copy

\* copy_or_link_file(sfile, dfile, bfile) under the fault the environment
\* injects: "none", "cmp" (an I/O error while filecmp reads), "op" (an I/O
\* error in os.link or shutil.copy2).  act is the operation it chose, exc
\* whether it raised.
copy_or_link_file(f, sfile, dfile, bfile, fault) ==
    LET parentOk == isdir(f, Front(dfile))
        copy == IF fault = "op" \/ ~parentOk
                THEN [fs |-> f, act |-> "copy", exc |-> TRUE]
                ELSE [fs |-> With(f, dfile :> File(f[sfile].data, f[sfile].mtime, dfile)),
                      act |-> "copy", exc |-> FALSE]
    IN IF compares(f, bfile)
       THEN IF fault = "cmp" THEN [fs |-> f, act |-> "none", exc |-> TRUE]
            ELSE IF filecmp(f, bfile[1], sfile)
                 THEN IF fault = "op" \/ ~parentOk \/ exists(f, dfile)
                      THEN [fs |-> f, act |-> "link", exc |-> TRUE]
                      ELSE [fs |-> With(f, dfile :> f[realpath(f, bfile[1])]),
                            act |-> "link", exc |-> FALSE]
                 ELSE copy
       ELSE copy

\* create_subdir(d): os.makedirs raises when d exists.
create_subdir(f, d, fault) ==
    IF fault = "op" \/ exists(f, d)
    THEN [fs |-> f, act |-> "create", exc |-> TRUE]
    ELSE [fs |-> makedirs(f, d), act |-> "create", exc |-> FALSE]

\* ------------------------------------------------------------------- Init
\* Greatest number of entries the backup root holds when the run starts.
MaxEntries == 2

\* A tree (relative path -> node) put at the absolute path at; a file's
\* inode is named by the path that created it.
Place(tree, at) ==
    [q \in {at \o rel : rel \in DOMAIN tree} |->
        LET n == tree[SubSeq(q, Len(at) + 1, Len(q))]
        IN IF n.kind = "file" THEN File(n.data, n.mtime, q) ELSE n]

EmptyTree == [q \in {} |-> Dir]
Plain == File(<<1>>, 1, <<>>)

\* The source trees: empty, one file, a directory with a file, nested
\* directories without a file, and a directory with a file beside a file.
SrcTrees ==
    { EmptyTree,
      (<<F>> :> Plain),
      (<<D>> :> Dir) @@ (<<D, F>> :> Plain),
      (<<D>> :> Dir) @@ (<<D, E>> :> Dir),
      (<<D>> :> Dir) @@ (<<D, F>> :> Plain) @@ (<<F>> :> Plain) }

\* What an entry of the backup root may hold: nothing; f as in the source;
\* f with the same bytes and another mtime; f of the same size and mtime
\* with other bytes; f of another size; f a directory; d/f as in the source.
SnapTrees ==
    { EmptyTree,
      (<<F>> :> Plain),
      (<<F>> :> File(<<1>>, 2, <<>>)),
      (<<F>> :> File(<<2>>, 1, <<>>)),
      (<<F>> :> File(<<1, 1>>, 1, <<>>)),
      (<<F>> :> Dir),
      (<<D>> :> Dir) @@ (<<D, F>> :> Plain) }

\* What an entry that is no committed snapshot may hold.
OtherTrees == { EmptyTree, (<<F>> :> Plain) }

\* The names an entry of the backup root may have: committed snapshots,
\* and a temporary snapshot, a foreign entry, a foreign entry ending in .tmp.
CommittedNames == { strftime(0), strftime(1) }
OtherNames == { strftime(1) \o tmp_suffix, X, X \o tmp_suffix }
RootNames == CommittedNames \cup OtherNames

\* The backup root with the entries es, rich holding the tree t and every
\* other entry empty.
RootTree(es, rich, t) ==
    LET dirs == [q \in {<<e>> : e \in es} |-> Dir]
    IN IF rich \in es THEN With(dirs, Place(t, <<rich>>)) ELSE dirs

RootSets == {x \in SUBSET RootNames : Cardinality(x) <= MaxEntries}

RootTrees ==
    {RootTree(es, rich, t) : es \in RootSets, rich \in CommittedNames, t \in SnapTrees}
    \cup {RootTree(es, rich, t) : es \in RootSets, rich \in OtherNames, t \in OtherTrees}

InitFs ==
    {With(With((root :> Dir) @@ (src :> Dir), Place(st, src)), Place(rt, root)) : st \in SrcTrees, rt \in RootTrees}

\* No second run.
NoRun == [pc |-> "none", dst |-> <<>>, tmp_dst |-> <<>>, left |-> 0]

\* The values of -o: negative, zero (or absent), positive.
Ages == {-1, 0, 1, 2}

Init ==
    /\ fs \in InitFs
    /\ fs0 = fs
    /\ clock = 0
    /\ pc = "names"
    /\ err = "none"
    /\ verbose \in BOOLEAN
    /\ older = 0
    /\ dst = <<>> /\ tmp_dst = <<>> /\ base = None
    /\ todo = <<>> /\ work = <<>> /\ total = 0 /\ collected = {}
    /\ faults = 0
    /\ rp_mode = "list" /\ rp_ref = 0 /\ rp_todo = {} /\ rp_cur = <<>>
    /\ rp_s = <<>> /\ rp_ret = "done"
    /\ removed = {}
    /\ committed = FALSE
    /\ other = NoRun

\* ---------------------------------------------------------------- __main__
Fail(e) == pc' = "failed" /\ err' = e

\* line 277: dst, tmp_dst = bf.make_timestamped_subdirname()
MakeNames ==
    /\ pc = "names"
    /\ \E t \in clock..MaxTime :
          /\ clock' = t
          /\ dst' = make_timestamped_subdirname(t).sub
          /\ tmp_dst' = make_timestamped_subdirname(t).tmp
    /\ pc' = "find_base"
    /\ UNCHANGED <<fs, err, verbose, older, base, todo, work, total, collected, faults, removed, committed, fs0, other>>
    /\ UNCHANGED rpVars

\* line 278: base = bf.find_newest_subdirname()
FindBase ==
    /\ pc = "find_base"
    /\ LET r == find_newest_subdirname(fs) IN
          IF r.raised
          THEN Fail("ValueError") /\ base' = base
          ELSE pc' = "copy_or_link" /\ err' = err /\ base' = r.value
    /\ UNCHANGED <<fs, clock, verbose, older, dst, tmp_dst, todo, work, total, collected, faults, removed, committed, fs0, other>>
    /\ UNCHANGED rpVars

\* lines 219-226: the head of copy_or_link, up to the start of the walk
Enter ==
    /\ pc = "copy_or_link"
    /\ IF exists(fs, tmp_dst)
       THEN Fail("RuntimeError") /\ UNCHANGED <<fs, total, todo>>
       ELSE /\ fs' = makedirs(fs, tmp_dst)
            /\ total' = get_file_count(fs, src)
            /\ todo' = Walk(fs, src, <<>>)
            /\ pc' = IF todo' = <<>> THEN "rename" ELSE "submit"
            /\ err' = err
    /\ UNCHANGED <<clock, verbose, older, dst, tmp_dst, base, work, collected, faults, removed, committed, fs0, other>>
    /\ UNCHANGED rpVars

\* lines 230, 235: tpe.submit of the next item of the walk
Submit ==
    /\ pc = "submit"
    /\ todo # <<>>
    /\ work' = Append(work, [kind |-> Head(todo).kind, rel |-> Head(todo).rel, state |-> "queued", act |-> "none", exc |-> FALSE, fault |-> "none"])
    /\ todo' = Tail(todo)
    /\ pc' = IF Tail(todo) = <<>> THEN "collect" ELSE "submit"
    /\ UNCHANGED <<fs, clock, err, verbose, older, dst, tmp_dst, base, total, collected, faults, removed, committed, fs0, other>>
    /\ UNCHANGED rpVars

Running == {i \in 1..Len(work) : work[i].state = "running"}

\* A pool thread takes the oldest queued item.
Start(i) ==
    /\ work[i].state = "queued"
    /\ \A j \in 1..(i - 1) : work[j].state # "queued"
    /\ Cardinality(Running) < max_workers
    /\ work' = [work EXCEPT ![i].state = "running"]
    /\ UNCHANGED <<fs, clock, pc, err, verbose, older, dst, tmp_dst, base, todo, total, collected, faults, removed, committed, fs0, other>>
    /\ UNCHANGED rpVars

\* line 234: bfile of the item at rel
bfile_of(rel) == IF base # None THEN Some(base[1] \o rel) ELSE None

\* The faults the environment may inject into item i.
FaultsFor(i) ==
    {"none"} \cup
    (IF faults < MaxFaults
     THEN {"op"} \cup (IF work[i].kind = "file" /\ compares(fs, bfile_of(work[i].rel)) THEN {"cmp"} ELSE {})
     ELSE {})

\* Execute with the destination joined to the base instead of self.dst.
ExecuteInBase(i, fault) ==
    LET d == IF base # None THEN base[1] ELSE tmp_dst IN
    IF work[i].kind = "dir"
    THEN create_subdir(fs, d \o work[i].rel, fault)
    ELSE copy_or_link_file(fs, src \o work[i].rel, d \o work[i].rel, bfile_of(work[i].rel), fault)

\* What the pool thread does for item i under the fault.
Execute(i, fault) ==
    IF work[i].kind = "dir"
    THEN create_subdir(fs, tmp_dst \o work[i].rel, fault)
    ELSE copy_or_link_file(fs, src \o work[i].rel, tmp_dst \o work[i].rel, bfile_of(work[i].rel), fault)

\* The pool thread runs item i to its result or exception.
Finish(i) ==
    /\ work[i].state = "running"
    /\ \E fault \in FaultsFor(i) :
          LET r == Execute(i, fault) IN
          /\ fs' = r.fs
          /\ work' = [work EXCEPT ![i] = [@ EXCEPT !.state = "done", !.act = r.act, !.exc = r.exc, !.fault = fault]]
          /\ faults' = IF fault = "none" THEN faults ELSE faults + 1
    /\ UNCHANGED <<clock, pc, err, verbose, older, dst, tmp_dst, base, todo, total, collected, removed, committed, fs0, other>>
    /\ UNCHANGED rpVars

\* lines 237-238 and 55: the body of the loop over the finished futures
\* for the future of item i under the verbose flag v, as the exception it
\* raises or "none".
LoopBody(v, i) ==
    IF v /\ work[i].exc THEN "ItemError"
    ELSE IF total = 0 THEN "ZeroDivisionError"
    ELSE "none"

\* Collect with a loop that is left at the first finished future.
CollectFirst(i) ==
    /\ pc = "collect"
    /\ work[i].state = "done"
    /\ i \notin collected
    /\ collected' = collected \cup {i}
    /\ IF LoopBody(verbose, i) # "none" THEN pc' = "shutdown" /\ err' = LoopBody(verbose, i)
       ELSE pc' = "rename" /\ err' = err
    /\ UNCHANGED <<fs, clock, verbose, older, dst, tmp_dst, base, todo, work, total, faults, removed, committed, fs0, other>>
    /\ UNCHANGED rpVars

\* lines 236-238 with progress_printer (lines 53-61): as_completed yields a
\* finished future; f.result() raises the item's exception when verbose;
\* then the generator divides by total.
Collect(i) ==
    /\ pc = "collect"
    /\ work[i].state = "done"
    /\ i \notin collected
    /\ collected' = collected \cup {i}
    /\ IF LoopBody(verbose, i) # "none" THEN pc' = "shutdown" /\ err' = LoopBody(verbose, i)
       ELSE /\ pc' = IF collected' = 1..Len(work) THEN "rename" ELSE "collect"
            /\ err' = err
    /\ UNCHANGED <<fs, clock, verbose, older, dst, tmp_dst, base, todo, work, total, faults, removed, committed, fs0, other>>
    /\ UNCHANGED rpVars

\* An exception leaves the with block of line 224: the pool is shut down
\* and waited for, then the exception ends the run.
Shutdown ==
    /\ pc = "shutdown"
    /\ \A i \in 1..Len(work) : work[i].state = "done"
    /\ pc' = "failed"
    /\ UNCHANGED <<fs, clock, err, verbose, older, removed, committed, fs0, other>>
    /\ UNCHANGED runVars
    /\ UNCHANGED rpVars

\* The tree below the path from, moved below the path to.
Moved(f, from, to) ==
    [q \in {IF IsPrefix(from, x) THEN to \o SubSeq(x, Len(from) + 1, Len(x)) ELSE x : x \in DOMAIN f} |->
        IF IsPrefix(to, q) THEN f[from \o SubSeq(q, Len(to) + 1, Len(q))] ELSE f[q]]

\* Rename with the failure of os.rename caught: the run goes on to the
\* cleanup.
RenameCaught ==
    /\ pc = "rename"
    /\ \E ok \in BOOLEAN :
          IF ok /\ (~exists(fs, dst) \/ (fs[dst].kind = "dir" /\ listdir(fs, dst) = {}))
          THEN /\ fs' = Moved(Without(fs, {dst}), tmp_dst, dst)
               /\ committed' = TRUE
               /\ pc' = "rm_tmp"
               /\ err' = err
          ELSE pc' = "rm_tmp" /\ err' = "OSError" /\ UNCHANGED <<fs, committed>>
    /\ UNCHANGED <<clock, verbose, older, removed, fs0, other>>
    /\ UNCHANGED runVars
    /\ UNCHANGED rpVars

\* line 287: os.rename(tmp_dst, dst).  It fails on a destination that is
\* not an empty directory; an empty directory is replaced (POSIX) or makes
\* it fail (Windows); the environment may fail it (permission, device).
Rename ==
    /\ pc = "rename"
    /\ \E ok \in BOOLEAN :
          IF ok /\ (~exists(fs, dst) \/ (fs[dst].kind = "dir" /\ listdir(fs, dst) = {}))
          THEN /\ fs' = Moved(Without(fs, {dst}), tmp_dst, dst)
               /\ committed' = TRUE
               /\ pc' = "rm_tmp"
               /\ err' = err
          ELSE Fail("OSError") /\ UNCHANGED <<fs, committed>>
    /\ UNCHANGED <<clock, verbose, older, removed, fs0, other>>
    /\ UNCHANGED runVars
    /\ UNCHANGED rpVars

\* The entries of os.listdir(self.root) joined to the root (lines 151-152,
\* 163-164).
Entries(f) == {Append(root, e) : e \in listdir(f, realpath(f, root))}

\* line 291: bf.rm_tmp()
RmTmp ==
    /\ pc = "rm_tmp"
    /\ rp_mode' = "tmp"
    /\ rp_todo' = Entries(fs)
    /\ rp_ret' = "rm_older"
    /\ pc' = "remove_paths"
    /\ UNCHANGED <<fs, clock, err, verbose, older, rp_ref, rp_cur, rp_s, removed, committed, fs0, other>>
    /\ UNCHANGED runVars

\* lines 295-296: if args.o: bf.rm_older(datetime.timedelta(days=args.o))
RmOlder ==
    /\ pc = "rm_older"
    /\ \E o \in Ages :
          /\ older' = o
          /\ IF o # 0
             THEN \E t \in clock..MaxTime :
                    /\ clock' = t
                    /\ rp_ref' = t - o
                    /\ rp_mode' = "older"
                    /\ rp_todo' = Entries(fs)
                    /\ rp_ret' = "done"
                    /\ pc' = "remove_paths"
             ELSE pc' = "done" /\ UNCHANGED <<clock, rp_ref, rp_mode, rp_todo, rp_ret>>
    /\ UNCHANGED <<fs, err, verbose, rp_cur, rp_s, removed, committed, fs0, other>>
    /\ UNCHANGED runVars

\* What the generator feeding remove_paths does with the entry p.
Generated(p) ==
    IF rp_mode = "tmp" THEN list_tmp(p)
    ELSE IF rp_mode = "older" THEN list_older(p, rp_ref)
    ELSE "yield"

\* line 136: the next p of path_list, and lines 127-128 of path_below
RemoveNext ==
    /\ pc = "remove_paths"
    /\ IF rp_todo = {}
       THEN pc' = rp_ret /\ UNCHANGED <<err, rp_todo, rp_cur, rp_s>>
       ELSE \E p \in rp_todo :
              /\ rp_todo' = rp_todo \ {p}
              /\ IF Generated(p) = "raise" THEN Fail("ValueError") /\ UNCHANGED <<rp_cur, rp_s>>
                 ELSE IF Generated(p) = "skip" THEN UNCHANGED <<pc, err, rp_cur, rp_s>>
                 ELSE /\ rp_cur' = p
                      /\ rp_s' = path_below_start(fs, p)
                      /\ pc' = "path_below"
                      /\ err' = err
    /\ UNCHANGED <<fs, clock, verbose, older, rp_mode, rp_ref, rp_ret, removed, committed, fs0, other>>
    /\ UNCHANGED runVars

\* lines 131-133: one turn of the loop of path_below.  s is an absolute
\* path and never the empty string, so the loop is left by return True only.
PathBelow ==
    /\ pc = "path_below"
    /\ rp_s' = split(rp_s)
    /\ pc' = IF path_below_match(fs, rp_s') THEN "remove" ELSE "path_below"
    /\ UNCHANGED <<fs, clock, err, verbose, older, rp_mode, rp_ref, rp_todo, rp_cur, rp_ret, removed, committed, fs0, other>>
    /\ UNCHANGED runVars

\* lines 138-147: the removal of p
Remove ==
    /\ pc = "remove"
    /\ LET r == remove_tree(fs, rp_cur) IN
          /\ fs' = r.fs
          /\ removed' = removed \cup {[arg |-> rp_cur, real |-> realpath(fs, rp_cur), path |-> q] : q \in DOMAIN fs \ DOMAIN r.fs}
          /\ IF r.exc # "none" THEN Fail(r.exc) ELSE pc' = "remove_paths" /\ err' = err
    /\ UNCHANGED <<clock, verbose, older, committed, fs0, other>>
    /\ UNCHANGED runVars
    /\ UNCHANGED rpVars

Next ==
    \/ MakeNames
    \/ FindBase
    \/ Enter
    \/ Submit
    \/ \E i \in 1..Len(work) : Start(i)
    \/ \E i \in 1..Len(work) : Finish(i)
    \/ \E i \in 1..Len(work) : Collect(i)
    \/ Shutdown
    \/ Rename
    \/ RmTmp
    \/ RmOlder
    \/ RemoveNext
    \/ PathBelow
    \/ Remove

Spec == Init /\ [][Next]_vars

\* ------------------------------------------- remove_paths on any path list
\* Greatest number of paths in the list given to remove_paths.
MaxPaths == 2

O == <<"o">>
L == <<"l">>

\* A backup root with a snapshot 00, a directory o outside it with a file,
\* a symbolic link in the root to the outside and one outside to the inside.
RemoveFs ==
    {With((root :> Dir) @@ (<<R, strftime(0)>> :> Dir)
              @@ (<<O>> :> Dir) @@ (<<O, F>> :> File(<<1>>, 1, <<O, F>>))
              @@ (<<R, L>> :> Symlink(<<O>>)) @@ (<<O, L>> :> Symlink(<<R, strftime(0)>>)),
          Place(t, <<R, strftime(0)>>)) : t \in OtherTrees}

\* The paths given to remove_paths: below the root, the root, outside it,
\* with "..", through the links, the file system's root, a missing entry.
RemovePaths ==
    { <<R, strftime(0)>>, <<R>>, <<O>>, <<O, F>>, <<>>,
      <<R, strftime(0), DotDot>>, <<R, strftime(0), DotDot, DotDot, O>>,
      <<R, DotDot, O>>, <<O, DotDot, R, strftime(0)>>,
      <<R, L>>, <<R, L, F>>, <<O, L>>, <<R, Q>> }

InitRemove ==
    /\ fs \in RemoveFs
    /\ fs0 = fs
    /\ clock = 0
    /\ pc = "remove_paths"
    /\ err = "none"
    /\ verbose = FALSE
    /\ older = 0
    /\ dst = <<>> /\ tmp_dst = <<>> /\ base = None
    /\ todo = <<>> /\ work = <<>> /\ total = 0 /\ collected = {}
    /\ faults = 0
    /\ rp_mode = "list" /\ rp_ref = 0 /\ rp_cur = <<>>
    /\ rp_todo \in {x \in SUBSET RemovePaths : Cardinality(x) \in 1..MaxPaths}
    /\ rp_s = <<>> /\ rp_ret = "done"
    /\ removed = {}
    /\ committed = FALSE
    /\ other = NoRun

NextRemove ==
    \/ RemoveNext
    \/ PathBelow
    \/ Remove

SpecRemove == InitRemove /\ [][NextRemove]_vars

\* ------------------------------------------------ two runs on one root
\* A second run of the script works on the same root while this one runs.
\* Of the second run the model keeps what this run can meet in the root:
\* the making of its temporary directory, one item writing a file into it,
\* and its rename.

\* The file systems two runs start on: the source empty or with one file,
\* the root empty or with one committed snapshot.
TwoFs ==
    {With(With((root :> Dir) @@ (src :> Dir), Place(st, src)), Place(rt, root)) :
        st \in {EmptyTree, (<<F>> :> Plain)},
        rt \in {RootTree(es, strftime(0), (<<F>> :> Plain)) : es \in {{}, {strftime(0)}}}}

InitTwo ==
    /\ fs \in TwoFs
    /\ fs0 = fs
    /\ clock = 0
    /\ pc = "names"
    /\ err = "none"
    /\ verbose \in BOOLEAN
    /\ older = 0
    /\ dst = <<>> /\ tmp_dst = <<>> /\ base = None
    /\ todo = <<>> /\ work = <<>> /\ total = 0 /\ collected = {}
    /\ faults = 0
    /\ rp_mode = "list" /\ rp_ref = 0 /\ rp_todo = {} /\ rp_cur = <<>>
    /\ rp_s = <<>> /\ rp_ret = "done"
    /\ removed = {}
    /\ committed = FALSE
    /\ other = [pc |-> "start", dst |-> <<>>, tmp_dst |-> <<>>, left |-> 1]

\* The steps of the second run leave this run's variables alone.
OtherFrame ==
    /\ UNCHANGED <<pc, err, verbose, older, removed, committed, fs0>>
    /\ UNCHANGED runVars
    /\ UNCHANGED rpVars

\* lines 277 and 219-222 in the second run: its names from utcnow(), the
\* check of line 219, os.makedirs of its temporary directory.
OtherEnter ==
    /\ other.pc = "start"
    /\ \E t \in clock..MaxTime :
          LET n == make_timestamped_subdirname(t) IN
          /\ clock' = t
          /\ IF exists(fs, n.tmp)
             THEN /\ other' = [other EXCEPT !.pc = "failed", !.dst = n.sub, !.tmp_dst = n.tmp]
                  /\ fs' = fs
             ELSE /\ other' = [other EXCEPT !.pc = "running", !.dst = n.sub, !.tmp_dst = n.tmp]
                  /\ fs' = makedirs(fs, n.tmp)
    /\ OtherFrame

\* line 211 in the second run: an item copies a file into its temporary
\* directory; the item fails when the directory is gone.
OtherFinish ==
    /\ other.pc = "running"
    /\ other.left > 0
    /\ other' = [other EXCEPT !.left = @ - 1]
    /\ fs' = IF isdir(fs, other.tmp_dst)
             THEN With(fs, Append(other.tmp_dst, F) :> File(<<1>>, 1, Append(other.tmp_dst, F)))
             ELSE fs
    /\ clock' = clock
    /\ OtherFrame

\* line 287 in the second run, all its items done: os.rename of its
\* temporary directory, which fails when the directory is gone or the
\* final name is taken by a directory that is not empty.
OtherRename ==
    /\ other.pc = "running"
    /\ other.left = 0
    /\ IF /\ isdir(fs, other.tmp_dst)
          /\ (~exists(fs, other.dst) \/ (fs[other.dst].kind = "dir" /\ listdir(fs, other.dst) = {}))
       THEN /\ fs' = Moved(Without(fs, {other.dst}), other.tmp_dst, other.dst)
            /\ other' = [other EXCEPT !.pc = "done"]
       ELSE /\ fs' = fs
            /\ other' = [other EXCEPT !.pc = "failed"]
    /\ clock' = clock
    /\ OtherFrame

NextTwo ==
    \/ Next
    \/ OtherEnter
    \/ OtherFinish
    \/ OtherRename

SpecTwo == InitTwo /\ [][NextTwo]_vars

\* ------------------------------------------------------------------ claims
\* Some work item of the run ended with an exception.
SomeItemFailed == \E i \in 1..Len(work) : work[i].state = "done" /\ work[i].exc

\* The committed snapshots the root held when the run started.
PrevCommitted == {p \in Entries(fs0) : ~EndsWith(Last(p), tmp_suffix) /\ Parses(Last(p))}

\* A name in the timestamp format, or in that format plus the suffix.
IsSnapshotName(e) ==
    \/ Parses(e)
    \/ EndsWith(e, tmp_suffix) /\ Parses(SubSeq(e, 1, Len(e) - Len(tmp_suffix)))

\* C1: if a work item of the run failed, the run's final name never
\* appears under the root (the rename is not performed) and the temporary
\* directory remains, whatever the verbose flag.
C1_AtomicCommit == SomeItemFailed => ~committed /\ exists(fs, tmp_dst)

\* C2: in a run where some work item failed, nothing of a snapshot
\* committed before the run (under another name than the run's own) is
\* removed by the run's cleanup; stated for the retention ages that are
\* not negative.
C2_NoCleanupAfterFailure ==
    (SomeItemFailed /\ older >= 0) => \A r \in removed : \A c \in PrevCommitted \ {dst} : ~IsPrefix(c, r.path)

\* C3: remove_paths removes something for a path of its list only if the
\* path's real path lies strictly below the managed root: for a path
\* outside the root, the root itself or a path that resolves outside the
\* root nothing is unlinked or removed.
C3_Containment ==
    \A r \in removed :
        /\ StrictlyBelow(r.real, realpath(fs0, root))
        /\ StrictlyBelow(r.path, realpath(fs0, root))

\* C3 witness: remove_paths was given the link in the root that points
\* outside, path_below has walked its real path up to "/", nothing is gone.
C3_Witness ==
    /\ pc = "path_below"
    /\ rp_cur = <<R, L>>
    /\ ~StrictlyBelow(realpath(fs, rp_cur), realpath(fs, root))
    /\ rp_s = <<>>
    /\ fs = fs0

\* C4: cleanup removes only root entries named in the timestamp format or
\* in that format plus the temporary suffix; a foreign entry, also one
\* whose name merely ends in .tmp, is never removed.
C4_OnlySnapshotsRemoved ==
    \A r \in removed : Len(r.arg) = Len(root) + 1 /\ IsSnapshotName(Last(r.arg))

\* The condition of C5 for the file at rel, read off the file system the
\* run started with: a base exists, holds a regular file at rel, and its
\* bytes are those of the source file.
LinkCondition(rel) ==
    /\ base # None
    /\ (base[1] \o rel) \in DOMAIN fs0
    /\ fs0[base[1] \o rel].kind = "file"
    /\ fs0[base[1] \o rel].data = fs0[src \o rel].data

\* C5: a file item links the file from the base exactly if a base exists,
\* base/R is a regular file and its bytes are those of source/R; it copies
\* the source file otherwise.  A finished link shares the inode of base/R,
\* a finished copy is a new inode with the bytes of the source.  Without a
\* base nothing is linked.
C5_LinkOrCopy ==
    \A i \in 1..Len(work) :
        (work[i].kind = "file" /\ work[i].state = "done") =>
            LET rel == work[i].rel
                d == tmp_dst \o rel
            IN /\ work[i].act = "link" => LinkCondition(rel)
               /\ work[i].act = "copy" => ~LinkCondition(rel)
               /\ work[i].act = "none" => work[i].exc
               /\ (~work[i].exc /\ ~committed /\ work[i].act = "link") =>
                      /\ d \in DOMAIN fs
                      /\ fs[d] = fs0[base[1] \o rel]
               /\ (~work[i].exc /\ ~committed /\ work[i].act = "copy") =>
                      /\ d \in DOMAIN fs
                      /\ fs[d].kind = "file"
                      /\ fs[d].data = fs0[src \o rel].data
                      /\ \A q \in DOMAIN fs0 : fs0[q].kind = "file" => fs0[q].ino # fs[d].ino

\* C5 witness: a file was linked from a base file with the same bytes and
\* another modification time.
C5_Witness ==
    \E i \in 1..Len(work) :
        /\ work[i].state = "done" /\ work[i].act = "link" /\ ~work[i].exc
        /\ fs0[base[1] \o work[i].rel].mtime # fs0[src \o work[i].rel].mtime
        /\ fs[tmp_dst \o work[i].rel].ino = fs0[base[1] \o work[i].rel].ino

\* C6: the item that creates a directory D is done before any item for a
\* path below D starts, so without a fault of the environment no item fails.
C6_DirBeforeContent ==
    /\ \A i, j \in 1..Len(work) :
          (/\ work[i].kind = "dir"
           /\ StrictlyBelow(work[j].rel, work[i].rel)
           /\ work[j].state \in {"running", "done"}) => work[i].state = "done"
    /\ faults = 0 => ~SomeItemFailed

\* rm_older has run to its end or to an exception.
RmOlderEnded == (pc = "done" /\ older # 0) \/ (pc = "failed" /\ rp_mode = "older")

\* C7: when rm_older(age) has ended, every snapshot committed before the
\* run whose timestamp precedes now - age is gone with its whole subtree,
\* and every other one is as it was; stated for the positive ages.
C7_Retention ==
    (RmOlderEnded /\ older > 0) =>
        \A c \in PrevCommitted \ {dst} :
            IF strptime(Last(c)) < rp_ref
            THEN \A q \in DOMAIN fs : ~IsPrefix(c, q)
            ELSE \A q \in DOMAIN fs0 : IsPrefix(c, q) => (q \in DOMAIN fs /\ fs[q] = fs0[q])

\* Every entry of the root is a snapshot, committed or temporary.
OnlySnapshots == \A e \in listdir(fs0, root) : IsSnapshotName(e)

\* C8: in a root of committed and temporary snapshots, the base found is
\* the committed snapshot with the greatest timestamp, none if there is no
\* committed snapshot, and never a temporary one.
C8_NewestCommitted ==
    (OnlySnapshots /\ pc \notin {"names", "find_base"}) =>
        LET cs == {e \in listdir(fs0, root) : Parses(e)} IN
        /\ err # "ValueError"
        /\ cs = {} => base = None
        /\ cs # {} =>
              /\ base # None
              /\ Last(base[1]) \in cs
              /\ base[1] = Append(root, Last(base[1]))
              /\ \A e \in cs : strptime(e) <= strptime(Last(base[1]))

\* C8 witness: the root holds the committed snapshots 00 and 01 and the
\* base found is 01.
C8_Witness ==
    /\ pc = "copy_or_link"
    /\ listdir(fs0, root) = {strftime(0), strftime(1)}
    /\ base = Some(Append(root, strftime(1)))

\* C9: if the final or the temporary path exists when the run starts, the
\* run ends before it creates a directory or runs a work item, and the
\* existing final path is not replaced by the rename.
C9_NameCollision ==
    (pc # "names" /\ (exists(fs0, dst) \/ exists(fs0, tmp_dst))) =>
        /\ fs = fs0
        /\ work = <<>>
        /\ ~committed

\* The root holds an entry without the suffix whose name does not parse.
Malformed == \E e \in listdir(fs0, root) : ~EndsWith(e, tmp_suffix) /\ ~Parses(e)

\* C10: with a malformed non-temporary entry in the root the search for the
\* base raises, and the run ends with no temporary directory made, nothing
\* committed and nothing removed.
C10_MalformedFatal ==
    Malformed =>
        /\ pc \in {"names", "find_base", "failed"}
        /\ pc = "failed" => err = "ValueError"
        /\ fs = fs0
        /\ ~committed
        /\ removed = {}

\* C10 witness: the run ended in the ValueError of strptime.
C10_Witness == Malformed /\ pc = "failed" /\ err = "ValueError" /\ tmp_dst \notin DOMAIN fs

\* Every item of the walk was submitted and ran to its end with no exception.
AllItemsSucceeded ==
    /\ todo = <<>>
    /\ \A i \in 1..Len(work) : work[i].state = "done" /\ ~work[i].exc

\* C11: a run that made its temporary directory and whose work items all
\* succeeded goes on to the rename: it does not end before the rename is
\* tried.  This holds for every source tree, the empty one and one with
\* directories but no regular file included.
C11_CommitsOnSuccess ==
    (AllItemsSucceeded /\ pc = "failed" /\ ~committed) => err \in {"ValueError", "RuntimeError", "OSError"}

\* C12: path_below terminates for every path: each turn of its loop either
\* returns (true at a match with the root, false at the top of the path)
\* or goes on with a strictly shorter s, so the length of s bounds the
\* number of turns.
C12_PathBelowTerminates ==
    pc = "path_below" =>
        \/ path_below_match(fs, split(rp_s))
        \/ Len(split(rp_s)) < Len(rp_s)

\* Every submitted item has run to its end.
AllDone == todo = <<>> /\ \A i \in 1..Len(work) : work[i].state = "done"

\* C13: the rename is reached, and the snapshot committed, only when every
\* submitted item has finished: none is queued or running at or after the
\* rename.  An item finishes once: the result of a finished item never
\* changes again.
C13_RenameAfterItems ==
    [][/\ (pc' = "rename" \/ committed') => AllDone'
       /\ \A i \in 1..Len(work) :
             work[i].state = "done" => (i <= Len(work') /\ work'[i] = work[i])]_vars

\* C13 witness: the run is at the rename with two finished items.
C13_Witness == pc = "rename" /\ Len(work) >= 2 /\ AllDone /\ ~committed

\* C14: from the start of the run until its commit, the source tree and
\* every entry the root held before (the committed snapshots, the base
\* among them) are as they were, and every path the run has created lies
\* in its temporary directory.
C14_ReadOnlyUntilCommit ==
    ~committed =>
        /\ \A q \in DOMAIN fs0 : q \in DOMAIN fs /\ fs[q] = fs0[q]
        /\ \A q \in DOMAIN fs \ DOMAIN fs0 : tmp_dst # <<>> /\ IsPrefix(tmp_dst, q)

\* C14 witness: before the commit the run has linked a file from the base
\* and holds it in the temporary directory.
C14_Witness ==
    /\ ~committed
    /\ pc = "rename"
    /\ base # None
    /\ \E i \in 1..Len(work) :
          /\ work[i].act = "link"
          /\ (tmp_dst \o work[i].rel) \in DOMAIN fs \ DOMAIN fs0

\* C15: a file item whose comparison of base/R with source/R met an I/O
\* error ends as a failure and has neither linked nor copied: nothing is
\* at its destination.
C15_CompareErrorFails ==
    \A i \in 1..Len(work) :
        (work[i].state = "done" /\ work[i].fault = "cmp") =>
            /\ work[i].kind = "file"
            /\ work[i].exc
            /\ work[i].act = "none"
            /\ ~committed => (tmp_dst \o work[i].rel) \notin DOMAIN fs

\* C15 witness: the comparison of a file item with an existing base file
\* has failed and the item is done.
C15_Witness ==
    \E i \in 1..Len(work) :
        /\ work[i].state = "done" /\ work[i].fault = "cmp"
        /\ (base[1] \o work[i].rel) \in DOMAIN fs
        /\ fs[base[1] \o work[i].rel].kind = "file"

\* The rename of the run was tried and failed.
RenameFailed == err = "OSError" /\ ~committed

\* C16: when the rename fails the run has ended: the temporary directory
\* is there with all the run has put into it, and neither rm_tmp nor
\* rm_older has run, so nothing was removed.
C16_RenameFailureFatal ==
    RenameFailed =>
        /\ pc = "failed"
        /\ isdir(fs, tmp_dst)
        /\ \A i \in 1..Len(work) : ~work[i].exc => (tmp_dst \o work[i].rel) \in DOMAIN fs
        /\ rp_mode = "list" /\ rp_todo = {}
        /\ removed = {}
        /\ \A q \in DOMAIN fs0 : q \in DOMAIN fs /\ fs[q] = fs0[q]

\* C16 witness: the rename failed with a file in the temporary directory.
C16_Witness ==
    /\ RenameFailed
    /\ pc = "failed"
    /\ \E i \in 1..Len(work) :
          /\ work[i].kind = "file" /\ ~work[i].exc
          /\ (tmp_dst \o work[i].rel) \in DOMAIN fs

\* C17: whatever the retention age, the snapshot the run has committed is
\* not selected by list_older in the run, nothing of it is removed, and it
\* is there under its final name when the run is done.
C17_OwnSnapshotKept ==
    committed =>
        /\ ~(rp_mode = "older" /\ rp_cur = dst)
        /\ \A r \in removed : ~IsPrefix(dst, r.path)
        /\ pc = "done" => isdir(fs, dst)

\* C18: while a second run on the same root is in progress, nothing in its
\* temporary directory disappears by a step of this run: rm_tmp leaves the
\* temporary directory of the run in progress alone.
C18_OtherTmpKept ==
    [][(other.pc = "running" /\ other'.pc = "running") =>
          \A q \in DOMAIN fs : IsPrefix(other.tmp_dst, q) => q \in DOMAIN fs']_vars

\* Whether the loop over the finished futures (lines 236-238) raises under
\* the verbose flag v, given the results the items of the run have: it
\* runs its body for every future, and so raises if the body raises for one.
LoopRaises(v) == \E i \in 1..Len(work) : LoopBody(v, i) # "none"

\* LoopRaises(verbose) is what the run does: a run that reaches the rename
\* had a loop that did not raise, a run ended by the loop had one that did.
LoopRaisesIsOutcome ==
    /\ (pc = "rename" \/ committed \/ (pc = "failed" /\ err = "OSError")) => (AllDone /\ ~LoopRaises(verbose))
    /\ (pc = "failed" /\ err \in {"ItemError", "ZeroDivisionError"}) => (AllDone /\ LoopRaises(verbose))

\* C19: two runs with the same source, the same base and the same failing
\* items, one with the verbose flag and one without, both go on to the
\* rename or both end before it: for the item results of a run, the loop
\* that collects them raises with the flag exactly if it raises without.
C19_VerboseIndependent ==
    AllDone => (LoopRaises(TRUE) <=> LoopRaises(FALSE))
====
